---- MODULE Spec2Model ----
(***************************************************************************)
(* Model of the verification pipeline of src/bot.py: the dispatcher and    *)
(* ConversationHandler set up in setup_bot, the handlers it routes to, and *)
(* the remote protocol driven by verify_sheerid_link / submit_to_sheerid.  *)
(* Strings the code searches or assembles are sequences: a text message is *)
(* a sequence of characters, an error message a sequence of words.         *)
(***************************************************************************)
EXTENDS Integers, Sequences, FiniteSets, TLC

(* ---------------------------------------------------------------- bounds *)
\* Updates that may wait in the dispatcher's update queue.
MaxQueue == 1

(* ------------------------------------------------------------- constants *)
\* WAITING_FOR_URL, PROCESSING = range(2)
WAITING_FOR_URL == 0
PROCESSING == 1
\* telegram.ext.ConversationHandler.END
END == -1

\* Conversation keys (chat, user) the transport delivers updates for.
Convs == {"A", "B"}

(* ------------------------------------------------------------------ text *)
Lower(ch) ==
    CASE ch = "A" -> "a" [] ch = "B" -> "b" [] ch = "C" -> "c" [] ch = "D" -> "d"
      [] ch = "E" -> "e" [] ch = "F" -> "f" [] ch = "G" -> "g" [] ch = "H" -> "h"
      [] ch = "I" -> "i" [] ch = "J" -> "j" [] ch = "K" -> "k" [] ch = "L" -> "l"
      [] ch = "M" -> "m" [] ch = "N" -> "n" [] ch = "O" -> "o" [] ch = "P" -> "p"
      [] ch = "Q" -> "q" [] ch = "R" -> "r" [] ch = "S" -> "s" [] ch = "T" -> "t"
      [] ch = "U" -> "u" [] ch = "V" -> "v" [] ch = "W" -> "w" [] ch = "X" -> "x"
      [] ch = "Y" -> "y" [] ch = "Z" -> "z" [] OTHER -> ch

\* The character class [a-f0-9] under re.IGNORECASE.
HexChars == {"a", "b", "c", "d", "e", "f", "0", "1", "2", "3", "4", "5", "6", "7", "8", "9"}
IsHex(ch) == Lower(ch) \in HexChars

Whitespace == {" ", "\t", "\n", "\r"}

\* s[i..j] as a sequence.
Slice(s, i, j) == [k \in 1..(j - i + 1) |-> s[i + k - 1]]

\* str.strip(): drop leading and trailing whitespace.
Strip(s) ==
    LET keep == {i \in 1..Len(s) : s[i] \notin Whitespace}
    IN  IF keep = {} THEN <<>>
        ELSE LET lo == CHOOSE i \in keep : \A j \in keep : i <= j
                 hi == CHOOSE i \in keep : \A j \in keep : j <= i
             IN  Slice(s, lo, hi)

\* lit occurs in s at position i, compared exactly.
OccursAt(s, lit, i) ==
    /\ i >= 1
    /\ i + Len(lit) - 1 <= Len(s)
    /\ \A k \in 1..Len(lit) : s[i + k - 1] = lit[k]

\* Python's `lit in s` on strings, and the same on word sequences.
Contains(s, lit) == \E i \in 1..(Len(s) + 1) : OccursAt(s, lit, i)

\* lit occurs in s at position i, ignoring case.
OccursAtNoCase(s, lit, i) ==
    /\ i >= 1
    /\ i + Len(lit) - 1 <= Len(s)
    /\ \A k \in 1..Len(lit) : Lower(s[i + k - 1]) = Lower(lit[k])

\* The maximal run of [a-f0-9] characters of s starting at position i.
HexRun(s, i) ==
    LET stops == {j \in i..(Len(s) + 1) : j = Len(s) + 1 \/ ~IsHex(s[j])}
        stop  == CHOOSE j \in stops : \A k \in stops : j <= k
    IN  Slice(s, i, stop - 1)

\* Positions where  lit([a-f0-9]+)  matches in s under re.IGNORECASE.
MatchStarts(s, lit) ==
    {i \in 1..Len(s) : /\ OccursAtNoCase(s, lit, i)
                       /\ i + Len(lit) <= Len(s)
                       /\ IsHex(s[i + Len(lit)])}

\* re.search(lit + "([a-f0-9]+)", s, re.IGNORECASE).group(1); <<>> for no match.
SearchGroup(s, lit) ==
    LET starts == MatchStarts(s, lit)
    IN  IF starts = {} THEN <<>>
        ELSE LET i == CHOOSE a \in starts : \A b \in starts : a <= b
             IN  HexRun(s, i + Len(lit))

SHEERID_MARKER == <<"s", "h", "e", "e", "r", "i", "d", ".", "c", "o", "m">>

\* The patterns with the path segment tried before the query parameter.
patternsPathFirst ==
    << <<"/", "v", "e", "r", "i", "f", "y", "/">>,
       <<"v", "e", "r", "i", "f", "i", "c", "a", "t", "i", "o", "n", "I", "d", "=">>,
       <<"i", "d", "=">> >>

\* The literal prefixes of the three patterns, in list order.
patterns ==
    << <<"v", "e", "r", "i", "f", "i", "c", "a", "t", "i", "o", "n", "I", "d", "=">>,
       <<"/", "v", "e", "r", "i", "f", "y", "/">>,
       <<"i", "d", "=">> >>

\* extract_verification_id: the group of the first pattern that matches; <<>> is None.
extract_verification_id(url) ==
    LET hits == {n \in 1..Len(patterns) : SearchGroup(url, patterns[n]) # <<>>}
    IN  IF hits = {} THEN <<>>
        ELSE SearchGroup(url, patterns[CHOOSE n \in hits : \A m \in hits : n <= m])

\* Text messages users send (update.message.text).
Texts ==
    << <<"h", "e", "l", "l", "o">>,
       <<"s", "h", "e", "e", "r", "i", "d", ".", "c", "o", "m", "/", "x">>,
       <<"h", "t", "t", "p", "s", ":", "/", "/", "s", "e", "r", "v", "i", "c", "e", "s", ".",
         "s", "h", "e", "e", "r", "i", "d", ".", "c", "o", "m", "/", "v", "e", "r", "i", "f",
         "y", "/", "x", "?", "v", "e", "r", "i", "f", "i", "c", "a", "t", "i", "o", "n", "I",
         "d", "=", "a", "b", "c", "1", "2", "3">>,
       <<" ", "s", "h", "e", "e", "r", "i", "d", ".", "c", "o", "m", "/", "v", "e", "r", "i",
         "f", "y", "/", "9", "F", "0", "e", " ">> >>

(* ------------------------------------------------------- reference data *)
\* UNIVERSITIES (the first entries of the table), FIRST_NAMES, LAST_NAMES.
UNIVERSITIES ==
    << [id |-> 2565, name |-> "Pennsylvania State University", domain |-> "psu.edu"],
       [id |-> 3499, name |-> "UCLA", domain |-> "ucla.edu"] >>
FIRST_NAMES == <<"James", "John">>
LAST_NAMES == <<"Smith", "Johnson">>

\* The characters of the strings of the tables.
Chars(str) ==
    CASE str = "James" -> <<"J", "a", "m", "e", "s">>
      [] str = "John" -> <<"J", "o", "h", "n">>
      [] str = "Smith" -> <<"S", "m", "i", "t", "h">>
      [] str = "Johnson" -> <<"J", "o", "h", "n", "s", "o", "n">>
      [] str = "psu.edu" -> <<"p", "s", "u", ".", "e", "d", "u">>
      [] str = "ucla.edu" -> <<"u", "c", "l", "a", ".", "e", "d", "u">>

DigitChar(d) ==
    CASE d = 0 -> "0" [] d = 1 -> "1" [] d = 2 -> "2" [] d = 3 -> "3" [] d = 4 -> "4"
      [] d = 5 -> "5" [] d = 6 -> "6" [] d = 7 -> "7" [] d = 8 -> "8" [] d = 9 -> "9"

\* f"{n}" for a number n >= 0.
RECURSIVE Decimal(_)
Decimal(n) == IF n < 10 THEN <<DigitChar(n)>> ELSE Append(Decimal(n \div 10), DigitChar(n % 10))

\* f"{n:02d}"
Pad2(n) == IF n < 10 THEN <<"0">> \o Decimal(n) ELSE Decimal(n)

\* first_name[0].lower() and name.lower(), as characters.
LowerInitial(name) == <<Lower(Chars(name)[1])>>
LowerName(name) == [i \in 1..Len(Chars(name)) |-> Lower(Chars(name)[i])]

\* The random draws of one generate_student_data call: table indices u, f, l,
\* the email pattern p (index into the list of three), the number n appended
\* to it, the birth date y, m, d and the student number sid.
Draw(u, f, l, p, n, y, m, d, sid) ==
    [u |-> u, f |-> f, l |-> l, p |-> p, n |-> n, y |-> y, m |-> m, d |-> d, sid |-> sid]

\* The draws explored in the pipeline runs.
PipelineDraws ==
    { Draw(1, 1, 1, 1, 100, 2000, 1, 1, 100000),
      Draw(2, 2, 2, 2, 99, 2006, 12, 28, 999999) }

\* generate_student_data with a second random.choice(UNIVERSITIES) for the
\* domain of the email.
generate_student_dataSecondChoice(r) ==
    LET university == UNIVERSITIES[r.u]
        other      == UNIVERSITIES[(r.u % Len(UNIVERSITIES)) + 1]
        first_name == FIRST_NAMES[r.f]
        last_name  == LAST_NAMES[r.l]
        email_pattern ==
            CASE r.p = 1 -> LowerInitial(first_name) \o LowerName(last_name) \o Decimal(r.n)
              [] r.p = 2 -> LowerName(first_name) \o <<".">> \o LowerName(last_name)
                              \o Decimal(r.n)
              [] r.p = 3 -> LowerName(last_name) \o LowerInitial(first_name) \o Decimal(r.n)
    IN  [ first_name |-> first_name,
          last_name  |-> last_name,
          email      |-> email_pattern \o <<"@">> \o Chars(other.domain),
          birth_date |-> Decimal(r.y) \o <<"-">> \o Pad2(r.m) \o <<"-">> \o Pad2(r.d),
          university |-> university,
          student_id |-> [prefix |-> "STU", number |-> r.sid] ]

\* generate_student_data, as a function of its random draws. email and
\* birth_date are the strings the f-strings build, as characters.
generate_student_data(r) ==
    LET university == UNIVERSITIES[r.u]
        first_name == FIRST_NAMES[r.f]
        last_name  == LAST_NAMES[r.l]
        email_pattern ==
            CASE r.p = 1 -> LowerInitial(first_name) \o LowerName(last_name) \o Decimal(r.n)
              [] r.p = 2 -> LowerName(first_name) \o <<".">> \o LowerName(last_name)
                              \o Decimal(r.n)
              [] r.p = 3 -> LowerName(last_name) \o LowerInitial(first_name) \o Decimal(r.n)
    IN  [ first_name |-> first_name,
          last_name  |-> last_name,
          email      |-> email_pattern \o <<"@">> \o Chars(university.domain),
          birth_date |-> Decimal(r.y) \o <<"-">> \o Pad2(r.m) \o <<"-">> \o Pad2(r.d),
          university |-> university,
          student_id |-> [prefix |-> "STU", number |-> r.sid] ]

NoStudent == [none |-> TRUE]

\* generate_student_id_image: the PNG in a BytesIO rewound to 0; the rendered
\* bytes are identified by `doc`. ImageSizes: the lengths explored.
ImageSizes == {3}
generate_student_id_image(student, nbytes) ==
    [doc |-> student.student_id.number, nbytes |-> nbytes, pos |-> 0]
NoImage == [none |-> TRUE]

(* -------------------------------------------------------- remote service *)
\* Status codes the remote service answers with.
HttpStatuses == {200, 204, 400, 500}

\* f"{response.status_code}"
StatusText(code) ==
    CASE code = 200 -> "200" [] code = 204 -> "204"
      [] code = 400 -> "400" [] code = 500 -> "500"

\* Values of the "currentStep" field of a verification.
CurrentSteps == {"collectStudentPersonalInfo", "sso", "success", "docUpload", "pending"}

\* Upload URLs the docUpload step hands out.
UploadUrls == {"https://upload.example/1"}

\* A response as the code reads it. kind "exc": the call raised (timeout,
\* connection failure) with message exc. kind "http": status_code, and for the
\* body: json (it parses to an object), hasStep/currentStep (the "currentStep"
\* key), documents (the "documents" list; <<>> when missing or empty), each
\* document with hasUrl/uploadUrl (the "uploadUrl" key).
Response(kind, status, json, hasStep, currentStep, documents, exc) ==
    [kind |-> kind, status |-> status, json |-> json, hasStep |-> hasStep,
     currentStep |-> currentStep, documents |-> documents, exc |-> exc]

Raised(msg) == Response("exc", 0, FALSE, FALSE, "", <<>>, msg)
Plain(status) == Response("http", status, FALSE, FALSE, "", <<>>, "")

TransportFailures == {Raised("timed out")}

\* Answers to GET /verification/{id}.
StatusResponses ==
    TransportFailures
    \cup {Plain(s) : s \in HttpStatuses}
    \cup {Response("http", 200, TRUE, FALSE, "", <<>>, "")}
    \cup {Response("http", 200, TRUE, TRUE, st, <<>>, "") : st \in CurrentSteps}

\* Answers to the POSTs of steps 1 and 4 and to the PUT of step 3.
StepResponses ==
    TransportFailures
    \cup {Plain(s) : s \in HttpStatuses}

\* Answers to POST .../step/docUpload.
UploadSlotResponses ==
    TransportFailures
    \cup {Plain(s) : s \in HttpStatuses}
    \cup {Response("http", 200, TRUE, FALSE, "", <<>>, "")}
    \cup {Response("http", 200, TRUE, FALSE, "", <<[hasUrl |-> FALSE, uploadUrl |-> ""]>>, ""),
          Response("http", 200, TRUE, FALSE, "", <<[hasUrl |-> TRUE, uploadUrl |-> ""]>>, "")}
    \cup {Response("http", 200, TRUE, FALSE, "", <<[hasUrl |-> TRUE, uploadUrl |-> u]>>, "")
            : u \in UploadUrls}

\* str(e) of what response.json() or a later access raises on a body that is
\* no JSON object.
JsonErrorText == "Expecting value"

(* ---------------------------------------------------- verify_sheerid_link *)
\* data.get("currentStep", "")
current_step(resp) == IF resp.hasStep THEN resp.currentStep ELSE ""

\* The list of accepted steps without its second entry.
ValidStepsWithoutSso == {"collectStudentPersonalInfo"}

ValidSteps == {"collectStudentPersonalInfo", "sso"}

\* verify_sheerid_link with an except clause that lets the link pass.
verify_sheerid_linkFailsOpen(resp) ==
    IF resp.kind = "exc"
    THEN [valid |-> TRUE, step |-> ""]
    ELSE IF resp.status = 200
    THEN IF ~resp.json
         THEN [valid |-> FALSE, error |-> <<"Connection", "error:", JsonErrorText>>]
         ELSE IF current_step(resp) \in ValidSteps
         THEN [valid |-> TRUE, step |-> current_step(resp)]
         ELSE IF current_step(resp) = "success"
         THEN [valid |-> FALSE, error |-> <<"Already", "verified">>]
         ELSE [valid |-> FALSE, error |-> <<"Invalid", "step:", current_step(resp)>>]
    ELSE [valid |-> FALSE, error |-> <<"HTTP", StatusText(resp.status)>>]

\* verify_sheerid_link: its return value for the response the GET got.
verify_sheerid_link(resp) ==
    IF resp.kind = "exc"
    THEN [valid |-> FALSE, error |-> <<"Connection", "error:", resp.exc>>]
    ELSE IF resp.status = 200
    THEN IF ~resp.json
         THEN [valid |-> FALSE, error |-> <<"Connection", "error:", JsonErrorText>>]
         ELSE IF current_step(resp) \in ValidSteps
         THEN [valid |-> TRUE, step |-> current_step(resp)]
         ELSE IF current_step(resp) = "success"
         THEN [valid |-> FALSE, error |-> <<"Already", "verified">>]
         ELSE [valid |-> FALSE, error |-> <<"Invalid", "step:", current_step(resp)>>]
    ELSE [valid |-> FALSE, error |-> <<"HTTP", StatusText(resp.status)>>]

NoCheck == [none |-> TRUE]

(* ------------------------------------------------------ submit_to_sheerid *)
Failure(words) == [success |-> FALSE, error |-> words]

\* The except clause: f"API Error: {str(e)[:100]}"
APIError(msg) == Failure(<<"API", "Error:", msg>>)

\* What a step decides: go on (with the upload URL once known), or return res.
Go(url) == [go |-> TRUE, upload_url |-> url, res |-> Failure(<<>>)]
Stop(res) == [go |-> FALSE, upload_url |-> "", res |-> res]

\* Step 1 judged the way step 3 is: 204 accepted too.
Step1OkAccepts204(resp) == resp.status \in {200, 204}

\* The status codes each step accepts.
Step1Ok(resp) == resp.status = 200
Step2Ok(resp) == resp.status = 200
Step3Ok(resp) == resp.status \in {200, 204}
\* Step 4 judged the way step 3 is: 204 accepted too.
Step4OkLikeStep3(resp) == resp.status \in {200, 204}
Step4Ok(resp) == resp.status = 200

\* Step 1: POST .../step/collectStudentPersonalInfo
step1(resp) ==
    IF resp.kind = "exc" THEN Stop(APIError(resp.exc))
    ELSE IF ~Step1Ok(resp)
    THEN Stop(Failure(<<"Student", "info", "submission", "failed:", "HTTP",
                        StatusText(resp.status)>>))
    ELSE Go("")

\* Step 2 with the status check folded into the missing-URL message.
step2OneMessage(resp) ==
    IF resp.kind = "exc" THEN Stop(APIError(resp.exc))
    ELSE IF ~Step2Ok(resp) THEN Stop(Failure(<<"No", "upload", "URL", "received">>))
    ELSE IF ~resp.json THEN Stop(APIError(JsonErrorText))
    ELSE IF resp.documents = <<>>
    THEN Stop(Failure(<<"No", "upload", "URL", "received">>))
    ELSE IF ~resp.documents[1].hasUrl \/ resp.documents[1].uploadUrl = ""
    THEN Stop(Failure(<<"Invalid", "upload", "URL">>))
    ELSE Go(resp.documents[1].uploadUrl)

\* Step 2: POST .../step/docUpload, then the upload URL out of the answer.
step2(resp) ==
    IF resp.kind = "exc" THEN Stop(APIError(resp.exc))
    ELSE IF ~Step2Ok(resp)
    THEN Stop(Failure(<<"Upload", "URL", "request", "failed:", "HTTP",
                        StatusText(resp.status)>>))
    ELSE IF ~resp.json THEN Stop(APIError(JsonErrorText))
    ELSE IF resp.documents = <<>>
    THEN Stop(Failure(<<"No", "upload", "URL", "received">>))
    ELSE IF ~resp.documents[1].hasUrl \/ resp.documents[1].uploadUrl = ""
    THEN Stop(Failure(<<"Invalid", "upload", "URL">>))
    ELSE Go(resp.documents[1].uploadUrl)

\* Step 3 with the transfer in a try of its own that logs and goes on.
step3IgnoresRaise(resp, url) ==
    IF resp.kind = "exc" THEN Go(url)
    ELSE IF ~Step3Ok(resp)
    THEN Stop(Failure(<<"Document", "upload", "failed:", "HTTP", StatusText(resp.status)>>))
    ELSE Go(url)

\* Step 3: PUT of the document to the upload URL.
step3(resp, url) ==
    IF resp.kind = "exc" THEN Stop(APIError(resp.exc))
    ELSE IF ~Step3Ok(resp)
    THEN Stop(Failure(<<"Document", "upload", "failed:", "HTTP", StatusText(resp.status)>>))
    ELSE Go(url)

\* Step 4: POST .../step/completeDocUpload
step4(resp, url) ==
    IF resp.kind = "exc" THEN Stop(APIError(resp.exc))
    ELSE IF ~Step4Ok(resp)
    THEN Stop(Failure(<<"Upload", "completion", "failed:", "HTTP", StatusText(resp.status)>>))
    ELSE Go(url)

\* The default of the report used for a body without "currentStep".
final_stepReviewDefault(resp) == IF resp.hasStep THEN resp.currentStep ELSE "pending_review"

\* final_data.get("currentStep", "pending")
final_step(resp) == IF resp.hasStep THEN resp.currentStep ELSE "pending"

\* final_status with a success result that leaves out the record used.
final_statusWithoutRecord(resp, vid, student) ==
    IF resp.kind = "exc" THEN APIError(resp.exc)
    ELSE IF resp.status = 200
    THEN IF ~resp.json THEN APIError(JsonErrorText)
         ELSE [success |-> TRUE,
               message |-> <<"Verification", "submitted", "successfully!">>,
               verification_id |-> vid,
               current_step |-> final_step(resp)]
    ELSE [success |-> TRUE,
          message |-> <<"Verification", "submitted!", "(Status", "check", "failed)">>,
          verification_id |-> vid]

\* The final status read and the value submit_to_sheerid returns after it.
final_status(resp, vid, student) ==
    IF resp.kind = "exc" THEN APIError(resp.exc)
    ELSE IF resp.status = 200
    THEN IF ~resp.json THEN APIError(JsonErrorText)
         ELSE [success |-> TRUE,
               message |-> <<"Verification", "submitted", "successfully!">>,
               verification_id |-> vid,
               current_step |-> final_step(resp),
               details |-> student]
    ELSE [success |-> TRUE,
          message |-> <<"Verification", "submitted!", "(Status", "check", "failed)">>,
          verification_id |-> vid,
          details |-> student]

NoResult == [none |-> TRUE]

\* result.get('current_step', 'pending_review') in the final report.
shown_step(res) ==
    IF "current_step" \in DOMAIN res THEN res.current_step ELSE "pending_review"

(* ----------------------------------------------------------------- state *)
VARIABLES
    update_queue,     \* updates received and not yet dispatched, oldest first
    conversations,    \* ConversationHandler.conversations: key -> state, END for a key it lacks
    pc,               \* where the dispatcher thread is: "idle" or inside handle_verification_link
    cur,              \* the update handle_verification_link is running for
    url,              \* its locals: the text of the message, stripped
    verification_id,
    link_check,
    student_data,
    image_io,
    upload_url,
    result,
    processing_msg,   \* the content of the chat message the handler keeps editing
    calls,            \* remote calls issued by the running handler, in order
    trace,            \* stages and progress edits of the running handler, in order
    reply,            \* the last payload sent with reply_text
    cancelled         \* conversations cancelled and not started again since

vars == <<update_queue, conversations, pc, cur, url, verification_id, link_check, student_data,
          image_io, upload_url, result, processing_msg, calls, trace, reply, cancelled>>

locals == <<cur, url, verification_id, link_check, student_data, image_io, upload_url, result,
            processing_msg, calls, trace>>

UpdateKinds == {"verify", "cancel", "simulate", "start_real_verify", "text"}

\* An update: a command, a button press or a text message (text indexes Texts).
Update(conv, kind, text) == [conv |-> conv, kind |-> kind, text |-> text]
Updates ==
    {Update(c, k, 0) : c \in Convs, k \in UpdateKinds \ {"text"}}
    \cup {Update(c, "text", t) : c \in Convs, t \in 1..Len(Texts)}
NoUpdate == Update("", "", 0)

NoReply == [conv |-> "", type |-> "none"]
NoMessage == [conv |-> "", type |-> "none"]

\* A remote call: the operation, the verification id in its URL, the upload URL
\* (PUT), the size declared (docUpload) or sent (PUT), and the answer.
Call(op, id, to, size, resp) == [op |-> op, id |-> id, url |-> to, size |-> size, resp |-> resp]

Init ==
    /\ update_queue = <<>>
    /\ conversations = [c \in Convs |-> END]
    /\ pc = "idle"
    /\ cur = NoUpdate
    /\ url = <<>>
    /\ verification_id = <<>>
    /\ link_check = NoCheck
    /\ student_data = NoStudent
    /\ image_io = NoImage
    /\ upload_url = ""
    /\ result = NoResult
    /\ processing_msg = NoMessage
    /\ calls = <<>>
    /\ trace = <<>>
    /\ reply = NoReply
    /\ cancelled = {}

(* ------------------------------------------------------------ dispatcher *)
\* ConversationHandler's update of the state with a callback's return value
\* (END removes the key).
UpdateState(c, new_state) == [conversations EXCEPT ![c] = new_state]

\* Handler with the link handler listed among the entry points of the
\* conversation handler too: a text starts a run from any state.
HandlerLinkEntryPoint(u) ==
    LET inConv ==
            IF conversations[u.conv] = END
            THEN CASE u.kind = "verify" -> "verify_command"
                   [] u.kind = "start_real_verify" -> "button_handler"
                   [] u.kind = "text" -> "handle_verification_link"
                   [] OTHER -> "none"
            ELSE CASE conversations[u.conv] = WAITING_FOR_URL /\ u.kind = "text"
                        -> "handle_verification_link"
                   [] u.kind = "cancel" -> "cancel_command"
                   [] OTHER -> "none"
    IN  IF inConv # "none" THEN inConv
        ELSE CASE u.kind = "simulate" -> "simulate_command"
               [] u.kind = "text" -> "default_reply"
               [] OTHER -> "none"

\* The callback the dispatcher runs for update u: the conversation handler's
\* entry points (no state), else its handlers for the state and its fallbacks,
\* else the first of the handlers added after it that accepts u.
Handler(u) ==
    LET inConv ==
            IF conversations[u.conv] = END
            THEN CASE u.kind = "verify" -> "verify_command"
                   [] u.kind = "start_real_verify" -> "button_handler"
                   [] OTHER -> "none"
            ELSE CASE conversations[u.conv] = WAITING_FOR_URL /\ u.kind = "text"
                        -> "handle_verification_link"
                   [] u.kind = "cancel" -> "cancel_command"
                   [] OTHER -> "none"
    IN  IF inConv # "none" THEN inConv
        ELSE CASE u.kind = "simulate" -> "simulate_command"
               [] u.kind = "text" -> "default_reply"
               [] OTHER -> "none"

\* The updater thread puts an update on the queue.
Arrive(u) ==
    /\ Len(update_queue) < MaxQueue
    /\ update_queue' = Append(update_queue, u)
    /\ UNCHANGED <<conversations, pc, locals, reply, cancelled>>

\* Takes by a dispatcher that hands callbacks to worker threads (run_async):
\* the next update is taken while a handler is still running.
TakesWhileBusy(h) ==
    /\ update_queue # <<>>
    /\ Handler(Head(update_queue)) = h
    /\ update_queue' = Tail(update_queue)

\* The dispatcher is free and takes the oldest update, for callback h.
Takes(h) ==
    /\ pc = "idle"
    /\ update_queue # <<>>
    /\ Handler(Head(update_queue)) = h
    /\ update_queue' = Tail(update_queue)

\* No handler accepts the update: it is dropped.
Unhandled ==
    /\ Takes("none")
    /\ UNCHANGED <<conversations, pc, locals, reply, cancelled>>

\* verify_command: the instructions, and WAITING_FOR_URL.
verify_command ==
    /\ Takes("verify_command")
    /\ LET c == Head(update_queue).conv
       IN  /\ reply' = [conv |-> c, type |-> "instructions"]
           /\ conversations' = UpdateState(c, WAITING_FOR_URL)
           /\ cancelled' = cancelled \ {c}
    /\ UNCHANGED <<pc, locals>>

\* button_handler as the entry point for the start_real_verify button.
button_handler ==
    /\ Takes("button_handler")
    /\ LET c == Head(update_queue).conv
       IN  /\ reply' = [conv |-> c, type |-> "instructions"]
           /\ conversations' = UpdateState(c, WAITING_FOR_URL)
           /\ cancelled' = cancelled \ {c}
    /\ UNCHANGED <<pc, locals>>

\* cancel_command returning the state it was called in.
cancel_commandKeepsWaiting ==
    /\ Takes("cancel_command")
    /\ LET c == Head(update_queue).conv
       IN  /\ reply' = [conv |-> c, type |-> "cancelled"]
           /\ conversations' = UpdateState(c, WAITING_FOR_URL)
           /\ cancelled' = cancelled \cup {c}
    /\ UNCHANGED <<pc, locals>>

\* cancel_command: the notice, and END.
cancel_command ==
    /\ Takes("cancel_command")
    /\ LET c == Head(update_queue).conv
       IN  /\ reply' = [conv |-> c, type |-> "cancelled"]
           /\ conversations' = UpdateState(c, END)
           /\ cancelled' = cancelled \cup {c}
    /\ UNCHANGED <<pc, locals>>

\* simulate_command: a record and a card generated and shown, nothing sent out.
simulate_command ==
    /\ Takes("simulate_command")
    /\ \E r \in PipelineDraws, n \in ImageSizes :
          LET student == generate_student_data(r)
              image == generate_student_id_image(student, n)
          IN  reply' = [conv |-> Head(update_queue).conv, type |-> "simulation",
                        student_id |-> student.student_id, file_size |-> image.nbytes]
    /\ UNCHANGED <<conversations, pc, locals, cancelled>>

\* The handler for any other text message.
default_reply ==
    /\ Takes("default_reply")
    /\ reply' = [conv |-> Head(update_queue).conv, type |-> "hint"]
    /\ UNCHANGED <<conversations, pc, locals, cancelled>>

(* ---------------------------------------------- handle_verification_link *)
\* url = update.message.text.strip()
UrlOf(u) == Strip(Texts[u.text])

\* LinkWithoutDomain ending the conversation after the format error.
LinkWithoutDomainEnds ==
    /\ Takes("handle_verification_link")
    /\ LET u == Head(update_queue)
       IN  /\ ~Contains(UrlOf(u), SHEERID_MARKER)
           /\ reply' = [conv |-> u.conv, type |-> "invalid_link"]
           /\ conversations' = UpdateState(u.conv, END)
    /\ UNCHANGED <<pc, locals, cancelled>>

\* "sheerid.com" not in url: the format error, and WAITING_FOR_URL again.
LinkWithoutDomain ==
    /\ Takes("handle_verification_link")
    /\ LET u == Head(update_queue)
       IN  /\ ~Contains(UrlOf(u), SHEERID_MARKER)
           /\ reply' = [conv |-> u.conv, type |-> "invalid_link"]
           /\ conversations' = UpdateState(u.conv, WAITING_FOR_URL)
    /\ UNCHANGED <<pc, locals, cancelled>>

\* No identifier extracted: the format error, and WAITING_FOR_URL again.
LinkWithoutId ==
    /\ Takes("handle_verification_link")
    /\ LET u == Head(update_queue)
       IN  /\ Contains(UrlOf(u), SHEERID_MARKER)
           /\ extract_verification_id(UrlOf(u)) = <<>>
           /\ reply' = [conv |-> u.conv, type |-> "invalid_link_format"]
           /\ conversations' = UpdateState(u.conv, WAITING_FOR_URL)
    /\ UNCHANGED <<pc, locals, cancelled>>

\* LinkAccepted run on a worker thread of its own (run_async=True): a link is
\* taken while the run of an earlier one is still going.
LinkAcceptedWhileRunning ==
    /\ TakesWhileBusy("handle_verification_link")
    /\ LET u == Head(update_queue)
       IN  /\ Contains(UrlOf(u), SHEERID_MARKER)
           /\ extract_verification_id(UrlOf(u)) # <<>>
           /\ cur' = u
           /\ url' = UrlOf(u)
           /\ verification_id' = extract_verification_id(UrlOf(u))
           /\ trace' = <<"extract", "notify1">>
           /\ reply' = [conv |-> u.conv, type |-> "processing"]
           /\ processing_msg' = [conv |-> u.conv, type |-> "progress", step |-> 1]
           /\ pc' = "verify"
    /\ UNCHANGED <<conversations, link_check, student_data, image_io, upload_url, result,
                   calls, cancelled>>

\* The link is accepted: the identifier is kept and "Step 1/5" is shown.
LinkAccepted ==
    /\ Takes("handle_verification_link")
    /\ LET u == Head(update_queue)
       IN  /\ Contains(UrlOf(u), SHEERID_MARKER)
           /\ extract_verification_id(UrlOf(u)) # <<>>
           /\ cur' = u
           /\ url' = UrlOf(u)
           /\ verification_id' = extract_verification_id(UrlOf(u))
           /\ trace' = <<"extract", "notify1">>
           /\ reply' = [conv |-> u.conv, type |-> "processing"]
           /\ processing_msg' = [conv |-> u.conv, type |-> "progress", step |-> 1]
           /\ pc' = "verify"
    /\ UNCHANGED <<conversations, link_check, student_data, image_io, upload_url, result,
                   calls, cancelled>>

\* VerifyLink without the return on a link that is not valid.
VerifyLinkNoReturn ==
    /\ pc = "verify"
    /\ \E resp \in StatusResponses :
          LET check == verify_sheerid_link(resp)
          IN  /\ calls' = Append(calls, Call("GET_status", verification_id, "", 0, resp))
              /\ link_check' = check
              /\ trace' = trace \o <<"notify2", "status">>
              /\ processing_msg' = IF check.valid
                          THEN [conv |-> cur.conv, type |-> "progress", step |-> 2]
                          ELSE [conv |-> cur.conv, type |-> "link_failed",
                                error |-> check.error]
              /\ pc' = "generate"
    /\ UNCHANGED <<update_queue, conversations, cur, url, verification_id, student_data, image_io,
                   upload_url, result, reply, cancelled>>

\* "Step 2/5", then verify_sheerid_link; a link that is not valid ends the run.
VerifyLink ==
    /\ pc = "verify"
    /\ \E resp \in StatusResponses :
          LET check == verify_sheerid_link(resp)
          IN  /\ calls' = Append(calls, Call("GET_status", verification_id, "", 0, resp))
              /\ link_check' = check
              /\ IF check.valid
                 THEN /\ trace' = trace \o <<"notify2", "status">>
                      /\ processing_msg' = [conv |-> cur.conv, type |-> "progress", step |-> 2]
                      /\ pc' = "generate"
                 ELSE /\ trace' = trace \o <<"notify2", "status", "report">>
                      /\ processing_msg' = [conv |-> cur.conv, type |-> "link_failed",
                                   error |-> check.error]
                      /\ pc' = "return"
    /\ UNCHANGED <<update_queue, conversations, cur, url, verification_id, student_data, image_io,
                   upload_url, result, reply, cancelled>>

\* Generate going on to the submission, the card never rendered.
GenerateSkipsRender ==
    /\ pc = "generate"
    /\ \E r \in PipelineDraws : student_data' = generate_student_data(r)
    /\ trace' = trace \o <<"notify3", "generate">>
    /\ processing_msg' = [conv |-> cur.conv, type |-> "progress", step |-> 3]
    /\ pc' = "submit"
    /\ UNCHANGED <<update_queue, conversations, cur, url, verification_id, link_check, image_io,
                   upload_url, result, calls, reply, cancelled>>

\* "Step 3/5", then generate_student_data.
Generate ==
    /\ pc = "generate"
    /\ \E r \in PipelineDraws : student_data' = generate_student_data(r)
    /\ trace' = trace \o <<"notify3", "generate">>
    /\ processing_msg' = [conv |-> cur.conv, type |-> "progress", step |-> 3]
    /\ pc' = "render"
    /\ UNCHANGED <<update_queue, conversations, cur, url, verification_id, link_check, image_io,
                   upload_url, result, calls, reply, cancelled>>

\* Render with the card drawn first and "Step 4/5" shown after it.
RenderBeforeNotice ==
    /\ pc = "render"
    /\ \E n \in ImageSizes : image_io' = generate_student_id_image(student_data, n)
    /\ trace' = trace \o <<"render", "notify4">>
    /\ processing_msg' = [conv |-> cur.conv, type |-> "progress", step |-> 4]
    /\ pc' = "submit"
    /\ UNCHANGED <<update_queue, conversations, cur, url, verification_id, link_check, student_data,
                   upload_url, result, calls, reply, cancelled>>

\* "Step 4/5", then generate_student_id_image.
Render ==
    /\ pc = "render"
    /\ \E n \in ImageSizes : image_io' = generate_student_id_image(student_data, n)
    /\ trace' = trace \o <<"notify4", "render">>
    /\ processing_msg' = [conv |-> cur.conv, type |-> "progress", step |-> 4]
    /\ pc' = "submit"
    /\ UNCHANGED <<update_queue, conversations, cur, url, verification_id, link_check, student_data,
                   upload_url, result, calls, reply, cancelled>>

\* "Step 5/5", then submit_to_sheerid is entered.
BeginSubmit ==
    /\ pc = "submit"
    /\ trace' = Append(trace, "notify5")
    /\ processing_msg' = [conv |-> cur.conv, type |-> "progress", step |-> 5]
    /\ pc' = "step1"
    /\ UNCHANGED <<update_queue, conversations, cur, url, verification_id, link_check, student_data,
                   image_io, upload_url, result, calls, reply, cancelled>>

\* result_text with the identifier read out of the result, result.get(
\* 'verification_id'), which a failure result does not carry.
result_textIdFromResult(res) ==
    IF res.success
    THEN [conv |-> cur.conv, type |-> "submitted",
          verification_id |-> res.verification_id,
          current_step |-> shown_step(res),
          student_id |-> student_data.student_id]
    ELSE [conv |-> cur.conv, type |-> "failed",
          verification_id |-> IF "verification_id" \in DOMAIN res
                              THEN res.verification_id ELSE <<>>,
          error |-> res.error,
          student_id |-> student_data.student_id]

\* The report handle_verification_link shows for the result of the submission.
result_text(res) ==
    IF res.success
    THEN [conv |-> cur.conv, type |-> "submitted",
          verification_id |-> verification_id,
          current_step |-> shown_step(res),
          student_id |-> student_data.student_id]
    ELSE [conv |-> cur.conv, type |-> "failed",
          verification_id |-> verification_id,
          error |-> res.error,
          student_id |-> student_data.student_id]

\* submit_to_sheerid returns res after stage ev: the handler shows the report.
Returns(res, ev) ==
    /\ result' = res
    /\ processing_msg' = result_text(res)
    /\ trace' = trace \o <<ev, "report">>
    /\ pc' = "return"

\* What follows the decision d of step ev: the next step, or the return of d.res.
AfterStep(d, ev, next) ==
    /\ upload_url' = d.upload_url
    /\ IF d.go
       THEN /\ pc' = next
            /\ trace' = Append(trace, ev)
            /\ UNCHANGED <<result, processing_msg>>
       ELSE Returns(d.res, ev)

\* Step 1 posted again after a status of 500.
SubmitStep1RetriesOn500 ==
    /\ pc = "step1"
    /\ \E resp \in StepResponses :
          /\ calls' = Append(calls, Call("POST_collectStudentPersonalInfo", verification_id,
                                         "", 0, resp))
          /\ IF resp.kind = "http" /\ resp.status = 500 /\ Len(calls) < 3
             THEN /\ pc' = "step1"
                  /\ trace' = Append(trace, "step1")
                  /\ UNCHANGED <<upload_url, result, processing_msg>>
             ELSE AfterStep(step1(resp), "step1", "step2")
    /\ UNCHANGED <<update_queue, conversations, cur, url, verification_id, link_check, student_data,
                   image_io, reply, cancelled>>

SubmitStep1 ==
    /\ pc = "step1"
    /\ \E resp \in StepResponses :
          /\ calls' = Append(calls, Call("POST_collectStudentPersonalInfo", verification_id,
                                         "", 0, resp))
          /\ AfterStep(step1(resp), "step1", "step2")
    /\ UNCHANGED <<update_queue, conversations, cur, url, verification_id, link_check, student_data,
                   image_io, reply, cancelled>>

\* SubmitStep2 without the check of the uploadUrl read out of the first
\* document: a missing or empty one is passed on to the PUT.
SubmitStep2PassesEmptyUrl ==
    /\ pc = "step2"
    /\ \E resp \in UploadSlotResponses :
          /\ calls' = Append(calls, Call("POST_docUpload", verification_id, "",
                                         image_io.nbytes, resp))
          /\ IF resp.kind = "http" /\ Step2Ok(resp) /\ resp.json /\ resp.documents # <<>>
             THEN AfterStep(Go(resp.documents[1].uploadUrl), "step2", "step3")
             ELSE AfterStep(step2(resp), "step2", "step3")
    /\ UNCHANGED <<update_queue, conversations, cur, url, verification_id, link_check, student_data,
                   image_io, reply, cancelled>>

\* file_size = image_io.getbuffer().nbytes goes into the manifest.
SubmitStep2 ==
    /\ pc = "step2"
    /\ \E resp \in UploadSlotResponses :
          /\ calls' = Append(calls, Call("POST_docUpload", verification_id, "",
                                         image_io.nbytes, resp))
          /\ AfterStep(step2(resp), "step2", "step3")
    /\ UNCHANGED <<update_queue, conversations, cur, url, verification_id, link_check, student_data,
                   image_io, reply, cancelled>>

\* SubmitStep3 with content=image_io.read(2): the first block of the stream
\* only.
SubmitStep3ReadsOneBlock ==
    /\ pc = "step3"
    /\ \E resp \in StepResponses :
          /\ calls' = Append(calls, Call("PUT_upload", <<>>, upload_url,
                                         IF image_io.nbytes > 2 THEN 2 ELSE image_io.nbytes,
                                         resp))
          /\ AfterStep(step3(resp, upload_url), "step3", "step4")
    /\ image_io' = [image_io EXCEPT !.pos = IF image_io.nbytes > 2 THEN 2 ELSE image_io.nbytes]
    /\ UNCHANGED <<update_queue, conversations, cur, url, verification_id, link_check, student_data,
                   reply, cancelled>>

\* image_io.seek(0); content=image_io.read()
SubmitStep3 ==
    /\ pc = "step3"
    /\ \E resp \in StepResponses :
          /\ calls' = Append(calls, Call("PUT_upload", <<>>, upload_url,
                                         image_io.nbytes - 0, resp))
          /\ AfterStep(step3(resp, upload_url), "step3", "step4")
    /\ image_io' = [image_io EXCEPT !.pos = image_io.nbytes]
    /\ UNCHANGED <<update_queue, conversations, cur, url, verification_id, link_check, student_data,
                   reply, cancelled>>

SubmitStep4 ==
    /\ pc = "step4"
    /\ \E resp \in StepResponses :
          /\ calls' = Append(calls, Call("POST_completeDocUpload", verification_id, "", 0,
                                         resp))
          /\ AfterStep(step4(resp, upload_url), "step4", "final")
    /\ UNCHANGED <<update_queue, conversations, cur, url, verification_id, link_check, student_data,
                   image_io, reply, cancelled>>

\* FinalStatus with the final read outside the try block: a call that raises
\* leaves the handler as an exception, nothing is shown and no state returned.
FinalStatusRaises ==
    /\ pc = "final"
    /\ \E resp \in StatusResponses :
          IF resp.kind = "exc"
          THEN /\ pc' = "idle"
               /\ cur' = NoUpdate
               /\ url' = <<>>
               /\ verification_id' = <<>>
               /\ link_check' = NoCheck
               /\ student_data' = NoStudent
               /\ image_io' = NoImage
               /\ upload_url' = ""
               /\ result' = NoResult
               /\ processing_msg' = NoMessage
               /\ calls' = <<>>
               /\ trace' = <<>>
          ELSE /\ calls' = Append(calls, Call("GET_final", verification_id, "", 0, resp))
               /\ Returns(final_status(resp, verification_id, student_data), "final")
               /\ UNCHANGED <<cur, url, verification_id, link_check, student_data, image_io,
                              upload_url>>
    /\ UNCHANGED <<update_queue, conversations, reply, cancelled>>

\* The final status read; submit_to_sheerid returns and the report is shown.
FinalStatus ==
    /\ pc = "final"
    /\ \E resp \in StatusResponses :
          /\ calls' = Append(calls, Call("GET_final", verification_id, "", 0, resp))
          /\ Returns(final_status(resp, verification_id, student_data), "final")
    /\ UNCHANGED <<update_queue, conversations, cur, url, verification_id, link_check, student_data,
                   image_io, upload_url, reply, cancelled>>

\* Return with `return PROCESSING` for the handler's last statement.
ReturnStaysProcessing ==
    /\ pc = "return"
    /\ conversations' = UpdateState(cur.conv, PROCESSING)
    /\ pc' = "idle"
    /\ cur' = NoUpdate
    /\ url' = <<>>
    /\ verification_id' = <<>>
    /\ link_check' = NoCheck
    /\ student_data' = NoStudent
    /\ image_io' = NoImage
    /\ upload_url' = ""
    /\ result' = NoResult
    /\ processing_msg' = NoMessage
    /\ calls' = <<>>
    /\ trace' = <<>>
    /\ UNCHANGED <<update_queue, reply, cancelled>>

\* return ConversationHandler.END: the conversation ends, the locals are gone.
Return ==
    /\ pc = "return"
    /\ conversations' = UpdateState(cur.conv, END)
    /\ pc' = "idle"
    /\ cur' = NoUpdate
    /\ url' = <<>>
    /\ verification_id' = <<>>
    /\ link_check' = NoCheck
    /\ student_data' = NoStudent
    /\ image_io' = NoImage
    /\ upload_url' = ""
    /\ result' = NoResult
    /\ processing_msg' = NoMessage
    /\ calls' = <<>>
    /\ trace' = <<>>
    /\ UNCHANGED <<update_queue, reply, cancelled>>

Next ==
    \/ \E u \in Updates : Arrive(u)
    \/ Unhandled
    \/ verify_command
    \/ button_handler
    \/ cancel_command
    \/ simulate_command
    \/ default_reply
    \/ LinkWithoutDomain
    \/ LinkWithoutId
    \/ LinkAccepted
    \/ VerifyLink
    \/ Generate
    \/ Render
    \/ BeginSubmit
    \/ SubmitStep1
    \/ SubmitStep2
    \/ SubmitStep3
    \/ SubmitStep4
    \/ FinalStatus
    \/ Return

Spec == Init /\ [][Next]_vars

\* The dispatcher thread taking the next update off the queue.
Dispatch ==
    \/ Unhandled
    \/ verify_command
    \/ button_handler
    \/ cancel_command
    \/ simulate_command
    \/ default_reply
    \/ LinkWithoutDomain
    \/ LinkWithoutId
    \/ LinkAccepted

\* The dispatcher thread going on inside handle_verification_link.
Run ==
    \/ VerifyLink
    \/ Generate
    \/ Render
    \/ BeginSubmit
    \/ SubmitStep1
    \/ SubmitStep2
    \/ SubmitStep3
    \/ SubmitStep4
    \/ FinalStatus
    \/ Return

(* ------------------------------------------------- generator on its own *)
\* The ranges generate_student_data draws from: random.randint(2000, 2006) in
\* full, the ends and a middle value of the others.
BirthYears == 2000..2006
BirthMonths == {1, 6, 12}
BirthDays == {1, 28}
PatternNumbers(p) == IF p = 2 THEN {10, 99} ELSE {100, 999}
StudentNumbers == {100000}

GenDraws ==
    {Draw(u, f, l, p, n, y, m, d, sid) :
        u \in 1..Len(UNIVERSITIES), f \in 1..Len(FIRST_NAMES), l \in 1..Len(LAST_NAMES),
        p \in 1..3, n \in {10, 99, 100, 999}, y \in BirthYears, m \in BirthMonths,
        d \in BirthDays, sid \in StudentNumbers}

\* One call of generate_student_data, its value kept in student_data.
GenerateRecord ==
    /\ student_data = NoStudent
    /\ \E r \in GenDraws :
          /\ r.n \in PatternNumbers(r.p)
          /\ student_data' = generate_student_data(r)
    /\ UNCHANGED <<update_queue, conversations, pc, cur, url, verification_id, link_check, image_io,
                   upload_url, result, processing_msg, calls, trace, reply, cancelled>>

GenSpec == Init /\ [][GenerateRecord]_vars

(* ------------------------------------------------- extractor on its own *)
\* Pieces of the texts given to extract_verification_id.
UrlPieces ==
    { <<"/", "v", "e", "r", "i", "f", "y", "/", "a", "b">>,
      <<"/", "v", "e", "r", "i", "f", "y", "/", "x">>,
      <<"v", "e", "r", "i", "f", "i", "c", "a", "t", "i", "o", "n", "I", "d", "=", "9", "F">>,
      <<"V", "E", "R", "I", "F", "I", "C", "A", "T", "I", "O", "N", "I", "D", "=", "c", "1">>,
      <<"v", "e", "r", "i", "f", "i", "c", "a", "t", "i", "o", "n", "I", "d", "=">>,
      <<"i", "d", "=", "0", "e">>,
      <<"i", "d", "=", "x">>,
      <<"?">>,
      <<"a", "b", "c">> }

\* The texts: up to three pieces in a row, and the stripped messages of Texts.
ExtractUrls ==
    {<<>>} \cup UrlPieces
    \cup {a \o b : a \in UrlPieces, b \in UrlPieces}
    \cup {a \o b \o c : a \in UrlPieces, b \in UrlPieces, c \in UrlPieces}
    \cup {Strip(Texts[i]) : i \in 1..Len(Texts)}

ExtractInit ==
    /\ update_queue = <<>>
    /\ conversations = [c \in Convs |-> END]
    /\ pc = "idle"
    /\ cur = NoUpdate
    /\ url \in ExtractUrls
    /\ verification_id = <<>>
    /\ link_check = NoCheck
    /\ student_data = NoStudent
    /\ image_io = NoImage
    /\ upload_url = ""
    /\ result = NoResult
    /\ processing_msg = NoMessage
    /\ calls = <<>>
    /\ trace = <<>>
    /\ reply = NoReply
    /\ cancelled = {}

\* verification_id = extract_verification_id(url)
ExtractId ==
    /\ trace = <<>>
    /\ verification_id' = extract_verification_id(url)
    /\ trace' = <<"extract">>
    /\ UNCHANGED <<update_queue, conversations, pc, cur, url, link_check, student_data,
                   image_io, upload_url, result, processing_msg, calls, reply, cancelled>>

ExtractSpec == ExtractInit /\ [][ExtractId]_vars

(* ---------------------------------------------- submission on its own *)
\* The lengths of the rendered document submit_to_sheerid is entered with.
CardSizes == 1..4

\* The handler enters submit_to_sheerid (line 578) for an accepted link that
\* passed the status check, with a generated record and its rendered card.
SubmitInit ==
    /\ update_queue = <<>>
    /\ conversations = [c \in Convs |-> IF c = "A" THEN WAITING_FOR_URL ELSE END]
    /\ pc = "step1"
    /\ cur = Update("A", "text", 3)
    /\ url = UrlOf(cur)
    /\ verification_id = extract_verification_id(url)
    /\ \E resp \in StatusResponses :
          /\ verify_sheerid_link(resp).valid
          /\ link_check = verify_sheerid_link(resp)
          /\ calls = <<Call("GET_status", verification_id, "", 0, resp)>>
    /\ \E r \in PipelineDraws : student_data = generate_student_data(r)
    /\ \E n \in CardSizes : image_io = generate_student_id_image(student_data, n)
    /\ upload_url = ""
    /\ result = NoResult
    /\ processing_msg = [conv |-> "A", type |-> "progress", step |-> 5]
    /\ trace = <<"extract", "notify1", "notify2", "status", "notify3", "generate",
                 "notify4", "render", "notify5">>
    /\ reply = [conv |-> "A", type |-> "processing"]
    /\ cancelled = {}

\* submit_to_sheerid, from its first step to its return value.
Submit == SubmitStep1 \/ SubmitStep2 \/ SubmitStep3 \/ SubmitStep4 \/ FinalStatus

SubmitSpec == SubmitInit /\ [][Submit]_vars

(* ---------------------------------------------------------------- claims *)
\* The handler has shown its last edit of the chat message and is to return.
RunOver == pc = "return"

SubmitOrder == <<"POST_collectStudentPersonalInfo", "POST_docUpload", "PUT_upload",
                 "POST_completeDocUpload">>
SubmitOps == {SubmitOrder[i] : i \in 1..Len(SubmitOrder)}

\* The calls submit_to_sheerid issued for steps 1-4, in order of issue.
StepCalls == SelectSeq(calls, LAMBDA c : c.op \in SubmitOps)

\* The i-th call of the run was issued with operation op.
Issued(op) == \E i \in 1..Len(calls) : calls[i].op = op

\* Success of step k as the design describes it: HTTP 200 for steps 1, 2 and
\* 4 (step 2 with a usable upload URL in the answer), 200 or 204 for step 3.
StepSucceeded(k, resp) ==
    /\ resp.kind = "http"
    /\ CASE k = 1 -> resp.status = 200
         [] k = 2 -> /\ resp.status = 200
                     /\ resp.json
                     /\ resp.documents # <<>>
                     /\ resp.documents[1].hasUrl
                     /\ resp.documents[1].uploadUrl # ""
         [] k = 3 -> resp.status \in {200, 204}
         [] k = 4 -> resp.status = 200

\* C1: the calls of submit are step 1, 2, 3, 4 in that order; step k+1 is
\* issued only after step k succeeded; the first failing step is the last
\* remote call of the run and the result then has success = FALSE.
C1_StepsInOrderShortCircuit ==
    /\ Len(StepCalls) <= Len(SubmitOrder)
    /\ \A k \in 1..Len(StepCalls) :
          /\ StepCalls[k].op = SubmitOrder[k]
          /\ k > 1 => StepSucceeded(k - 1, StepCalls[k - 1].resp)
          /\ ~StepSucceeded(k, StepCalls[k].resp) =>
                /\ k = Len(StepCalls)
                /\ calls[Len(calls)] = StepCalls[k]
                /\ RunOver
                /\ result.success = FALSE
    /\ Issued("GET_final") =>
          /\ Len(StepCalls) = Len(SubmitOrder)
          /\ StepSucceeded(4, StepCalls[4].resp)

\* C1 witness: step 3 failed with HTTP 500 after steps 1 and 2 succeeded.
C1_Witness ==
    /\ Len(StepCalls) = 3
    /\ StepCalls[3].resp.kind = "http"
    /\ StepCalls[3].resp.status = 500
    /\ RunOver
    /\ result.success = FALSE

\* The answer the status check of the running handler got.
StatusChecked == calls # <<>> /\ calls[1].op = "GET_status"
StatusAnswer == calls[1].resp

\* The status answers the design names as not valid: any status other than
\* 200, and the step of a verification that is already complete.
Rejected(resp) ==
    /\ resp.kind = "http"
    /\ \/ resp.status # 200
       \/ resp.json /\ resp.hasStep /\ resp.currentStep = "success"

\* C2: once the status check has returned valid = FALSE (among others for a
\* status other than 200, whose error names the status, and for a verification
\* already complete) no record is generated, no document rendered, no step 1-4
\* called, the validator's error is what the chat shows, and the handler's
\* next move ends the conversation.
C2_InvalidLinkStopsRun ==
    /\ [](StatusChecked /\ Rejected(StatusAnswer) => link_check.valid = FALSE)
    /\ [](StatusChecked /\ StatusAnswer.kind = "http" /\ StatusAnswer.status = 500
            => Contains(link_check.error, <<"500">>))
    /\ [](link_check # NoCheck /\ link_check.valid = FALSE =>
            /\ student_data = NoStudent
            /\ image_io = NoImage
            /\ Len(calls) = 1
            /\ StepCalls = <<>>
            /\ result = NoResult
            /\ pc = "return"
            /\ processing_msg = [conv |-> cur.conv, type |-> "link_failed",
                                 error |-> link_check.error])
    /\ [][link_check # NoCheck /\ link_check.valid = FALSE /\ pc' # pc =>
            /\ pc' = "idle"
            /\ conversations'[cur.conv] = END
            /\ calls' = <<>>
            /\ student_data' = NoStudent]_vars

\* C2 witness: the status check was answered HTTP 500 and the run is over.
C2_Witness ==
    /\ StatusChecked
    /\ StatusAnswer.kind = "http"
    /\ StatusAnswer.status = 500
    /\ link_check.valid = FALSE
    /\ pc = "return"
    /\ processing_msg.type = "link_failed"

\* C3: when step 2 is answered with a status other than 200, the result has
\* success = FALSE and an error containing "Upload URL", and neither the PUT
\* nor the completion POST is issued.
C3_UploadSlotRefused ==
    \A k \in 1..Len(calls) :
        /\ calls[k].op = "POST_docUpload"
        /\ calls[k].resp.kind = "http"
        /\ calls[k].resp.status # 200
        => /\ k = Len(calls)
           /\ ~Issued("PUT_upload")
           /\ ~Issued("POST_completeDocUpload")
           /\ RunOver
           /\ result.success = FALSE
           /\ Contains(result.error, <<"Upload", "URL">>)

\* C3 witness: step 2 was answered HTTP 400 and the failure is being reported.
C3_Witness ==
    /\ calls # <<>>
    /\ calls[Len(calls)].op = "POST_docUpload"
    /\ calls[Len(calls)].resp.kind = "http"
    /\ calls[Len(calls)].resp.status = 400
    /\ pc = "return"
    /\ processing_msg.type = "failed"
    /\ Contains(processing_msg.error, <<"Upload", "URL">>)

\* All four steps were issued and succeeded, and the final status read was made.
FinalRead == Issued("GET_final") /\ calls[Len(calls)].op = "GET_final"
FinalAnswer == calls[Len(calls)].resp

\* The current step the run resolves to: the result's, as the report shows it.
ResolvedStep == shown_step(result)

\* C4 (as claimed): when the four steps succeeded and the final status read
\* fails, by a status other than 200 or by a transport failure, the result has
\* success = TRUE and the resolved current step is "pending".
C4_FinalReadFailureStillSuccess ==
    /\ FinalRead
    /\ RunOver
    /\ \/ FinalAnswer.kind = "exc"
       \/ FinalAnswer.kind = "http" /\ FinalAnswer.status # 200
    => /\ result.success = TRUE
       /\ ResolvedStep = "pending"

\* C5 (as claimed): when the four steps succeeded and the final status read is
\* answered HTTP 200, the result has success = TRUE and a resolved current step
\* other than "pending", whatever the JSON object in the body.
C5_FinalReadOkNeverPending ==
    /\ FinalRead
    /\ RunOver
    /\ FinalAnswer.kind = "http"
    /\ FinalAnswer.status = 200
    /\ FinalAnswer.json
    => /\ result.success = TRUE
       /\ ResolvedStep # "pending"

\* C5 (amended): when the four steps succeeded and the final status read is
\* answered HTTP 200 with a JSON object, the result has success = TRUE and its
\* current step is the object's "currentStep", or "pending" when the object has
\* none; a 200 body that is no JSON object gives success = FALSE (API Error).
C5_FinalReadOkResolvesStep ==
    /\ FinalRead
    /\ RunOver
    /\ FinalAnswer.kind = "http"
    /\ FinalAnswer.status = 200
    => IF FinalAnswer.json
       THEN /\ result.success = TRUE
            /\ "current_step" \in DOMAIN result
            /\ FinalAnswer.hasStep => result.current_step = FinalAnswer.currentStep
            /\ ~FinalAnswer.hasStep => result.current_step = "pending"
            /\ ResolvedStep = result.current_step
            /\ result.verification_id = verification_id
            /\ result.details = student_data
       ELSE /\ result.success = FALSE
            /\ Contains(result.error, <<"API", "Error:">>)

\* C5 witness: the final read was answered 200 with a body without
\* "currentStep", and the success report shows "pending".
C5_Witness ==
    /\ FinalRead
    /\ FinalAnswer.kind = "http"
    /\ FinalAnswer.status = 200
    /\ FinalAnswer.json
    /\ ~FinalAnswer.hasStep
    /\ pc = "return"
    /\ processing_msg.type = "submitted"
    /\ processing_msg.current_step = "pending"

\* This step is the dispatcher running callback h for an update of c.
Handles(c, h) ==
    /\ pc = "idle"
    /\ update_queue # <<>>
    /\ Head(update_queue).conv = c
    /\ Handler(Head(update_queue)) = h
    /\ update_queue' = Tail(update_queue)

\* This step issues a remote call for conversation c.
CallsRemoteFor(c) == Len(calls') > Len(calls) /\ cur.conv = c

\* This step generates a record or renders a document in the pipeline of c.
PipelineGeneratesFor(c) ==
    /\ cur.conv = c
    /\ \/ student_data = NoStudent /\ student_data' # NoStudent
       \/ image_io = NoImage /\ image_io' # NoImage

\* This step generates a record and renders a document for c, in the pipeline
\* or in simulate_command.
GeneratesFor(c) == PipelineGeneratesFor(c) \/ Handles(c, "simulate_command")

Unrecognised(u) ==
    \/ ~Contains(Texts[u.text], SHEERID_MARKER)
    \/ extract_verification_id(Texts[u.text]) = <<>>

\* C7: a text message handled in WAITING_FOR_URL that lacks "sheerid.com" or
\* yields no identifier leaves the conversation in WAITING_FOR_URL with a
\* format-error reply and no status check, generation, rendering or submission;
\* a recognised link handled in WAITING_FOR_URL starts a run, whatever came
\* before it, so bad messages never use up the verification command.
C7_BadLinkStaysWaiting ==
    [][\A c \in Convs :
          Handles(c, "handle_verification_link") =>
             /\ conversations[c] = WAITING_FOR_URL
             /\ IF Unrecognised(Head(update_queue))
                THEN /\ conversations'[c] = WAITING_FOR_URL
                     /\ reply'.conv = c
                     /\ reply'.type \in {"invalid_link", "invalid_link_format"}
                     /\ pc' = "idle"
                     /\ calls' = <<>>
                     /\ student_data' = NoStudent
                     /\ image_io' = NoImage
                     /\ UNCHANGED locals
                ELSE /\ pc' = "verify"
                     /\ cur' = Head(update_queue)
                     /\ verification_id' # <<>>]_vars

\* C7 witness: A got the format error for a text with the marker and no
\* identifier, is still waiting, and its next message, a good link, is queued.
C7_Witness ==
    /\ reply = [conv |-> "A", type |-> "invalid_link_format"]
    /\ conversations["A"] = WAITING_FOR_URL
    /\ pc = "idle"
    /\ update_queue = <<Update("A", "text", 3)>>

\* The stages of the running handler in the order they began: the events of
\* trace that are no progress edits.
StageEvents == {"status", "generate", "render", "step1", "step2", "step3", "step4",
                "final", "report"}
Stages == SelectSeq(trace, LAMBDA e : e \in StageEvents)

IsPrefix(s, t) == Len(s) <= Len(t) /\ \A i \in 1..Len(s) : s[i] = t[i]

\* Stage e began exactly n times in the running handler.
Times(e) == Cardinality({i \in 1..Len(trace) : trace[i] = e})

\* The stages of a run whose link the status check accepts, through the
\* submission at its longest.
FullRun == <<"status", "generate", "render", "step1", "step2", "step3", "step4", "final",
             "report">>

\* The submission has begun / has returned its result.
Submitting == \E i \in 1..Len(Stages) : Stages[i] = "step1"

\* C8: for an accepted link the stages begin in the order status check,
\* generation, render, submission, each after the one before it has produced
\* its value and each at most once; the report shows the submission's result,
\* and the handler's next move ends the conversation.
C8_StagesInOrder ==
    /\ [](pc # "idle" =>
            /\ \/ IsPrefix(Stages, FullRun)
               \/ /\ Len(Stages) >= 4
                  /\ IsPrefix(SubSeq(Stages, 1, Len(Stages) - 1), FullRun)
                  /\ Stages[Len(Stages)] = "report"
               \/ Stages = <<"status", "report">> /\ link_check.valid = FALSE
            /\ \A e \in {"status", "generate", "render"} : Times(e) <= 1
            /\ Times("status") = 1 <=> link_check # NoCheck
            /\ Times("generate") = 1 <=> student_data # NoStudent
            /\ Times("render") = 1 <=> image_io # NoImage
            /\ Times("generate") = 1 => link_check # NoCheck /\ link_check.valid
            /\ Times("render") = 1 => image_io.doc = student_data.student_id.number
            /\ Submitting => student_data # NoStudent /\ image_io # NoImage
            /\ result # NoResult => Submitting)
    /\ [](pc = "return" /\ result # NoResult =>
            /\ processing_msg.conv = cur.conv
            /\ processing_msg.verification_id = verification_id
            /\ processing_msg.student_id = student_data.student_id
            /\ IF result.success
               THEN /\ processing_msg.type = "submitted"
                    /\ processing_msg.current_step = shown_step(result)
               ELSE /\ processing_msg.type = "failed"
                    /\ processing_msg.error = result.error)
    /\ [][pc = "return" /\ pc' # pc => pc' = "idle" /\ conversations'[cur.conv] = END]_vars

\* C8 witness: a run went through every stage and shows the success report.
C8_Witness ==
    /\ Stages = FullRun
    /\ pc = "return"
    /\ result.success = TRUE
    /\ processing_msg.type = "submitted"

\* A remote call failed: it raised, or its status is not one the caller accepts.
CallFailed(c) ==
    \/ c.resp.kind = "exc"
    \/ c.op \in {"GET_status", "GET_final"} /\ c.resp.status # 200
    \/ c.op \in {"POST_collectStudentPersonalInfo", "POST_docUpload",
                 "POST_completeDocUpload"} /\ c.resp.status # 200
    \/ c.op = "PUT_upload" /\ c.resp.status \notin {200, 204}

\* C9: within a run the status check and each of steps 1-4 is issued at most
\* once; a failed call is the last call of the run, and the run then ends
\* with its outcome shown in the chat.
C9_NoRetry ==
    /\ \A i, j \in 1..Len(calls) : calls[i].op = calls[j].op => i = j
    /\ \A i \in 1..Len(calls) :
          CallFailed(calls[i]) =>
             /\ i = Len(calls)
             /\ pc = "return"
             /\ processing_msg.conv = cur.conv
             /\ processing_msg.type \in {"link_failed", "failed", "submitted"}
             /\ processing_msg.type = "submitted" => calls[i].op = "GET_final"

\* C9 witness: step 1 raised a transport failure and the failure is shown.
C9_Witness ==
    /\ Len(calls) = 2
    /\ calls[2].op = "POST_collectStudentPersonalInfo"
    /\ calls[2].resp.kind = "exc"
    /\ pc = "return"
    /\ processing_msg.type = "failed"

\* C10: for every status code and "currentStep" value of the status answer:
\* 200 with collectStudentPersonalInfo or sso gives valid = TRUE and that step;
\* 200 with the completed step gives valid = FALSE and "Already verified"; 200
\* with any other step gives valid = FALSE and an error carrying the step; any
\* other status gives valid = FALSE and an error carrying the status code.
C10_StatusMapping ==
    StatusChecked /\ StatusAnswer.kind = "http" /\ (StatusAnswer.status = 200 => StatusAnswer.json)
    => LET r == StatusAnswer
           step == IF r.hasStep THEN r.currentStep ELSE ""
       IN  /\ r.status = 200 /\ step \in {"collectStudentPersonalInfo", "sso"}
                => link_check = [valid |-> TRUE, step |-> step]
           /\ r.status = 200 /\ step = "success"
                => /\ link_check.valid = FALSE
                   /\ Contains(link_check.error, <<"Already", "verified">>)
           /\ r.status = 200 /\ step \notin {"collectStudentPersonalInfo", "sso", "success"}
                => /\ link_check.valid = FALSE
                   /\ Contains(link_check.error, <<step>>)
           /\ r.status # 200
                => /\ link_check.valid = FALSE
                   /\ Contains(link_check.error, <<StatusText(r.status)>>)

\* C10 witness: the status answer was 200 with currentStep "sso" and the run
\* went on with step "sso".
C10_Witness ==
    /\ StatusChecked
    /\ StatusAnswer.kind = "http"
    /\ StatusAnswer.status = 200
    /\ StatusAnswer.hasStep
    /\ StatusAnswer.currentStep = "sso"
    /\ link_check = [valid |-> TRUE, step |-> "sso"]
    /\ pc = "generate"

\* C11: a transport failure of the status request (the call raises) does not
\* leave verify_sheerid_link as an exception: it returns valid = FALSE with
\* "Connection error: <text>", the chat shows that error, no record is
\* generated, no document rendered and no submission call issued, and the
\* handler's next move ends the conversation.
C11_TransportFailureCaught ==
    /\ [](StatusChecked /\ StatusAnswer.kind = "exc" =>
            /\ link_check = [valid |-> FALSE,
                             error |-> <<"Connection", "error:", StatusAnswer.exc>>]
            /\ pc = "return"
            /\ processing_msg = [conv |-> cur.conv, type |-> "link_failed",
                                 error |-> link_check.error]
            /\ student_data = NoStudent
            /\ image_io = NoImage
            /\ Len(calls) = 1
            /\ result = NoResult)
    /\ [][StatusChecked /\ StatusAnswer.kind = "exc" /\ pc' # pc =>
            /\ pc' = "idle"
            /\ conversations'[cur.conv] = END
            /\ calls' = <<>>]_vars

\* C11 witness: the status request timed out and the chat shows the
\* connection error.
C11_Witness ==
    /\ StatusChecked
    /\ StatusAnswer = Raised("timed out")
    /\ pc = "return"
    /\ processing_msg.type = "link_failed"
    /\ Contains(processing_msg.error, <<"Connection", "error:", "timed out">>)

\* The last call of the run is submission step k.
LastIsStep(k) == calls # <<>> /\ calls[Len(calls)].op = SubmitOrder[k]
LastAnswer == calls[Len(calls)].resp

\* The words with which step k reports a status it does not accept, without
\* the status itself ("Student info submission failed:", ...).
StepFailureWords(k) ==
    LET e == CASE k = 1 -> step1(Plain(500)).res.error
               [] k = 2 -> step2(Plain(500)).res.error
               [] k = 3 -> step3(Plain(500), "").res.error
               [] k = 4 -> step4(Plain(500), "").res.error
    IN  SubSeq(e, 1, Len(e) - 2)

\* C12 (as claimed): a transport failure at step k ends submit with
\* success = FALSE and the failure of step k reported as for a status the step
\* does not accept.
C12_RaiseReportedAsStepFailure ==
    \A k \in 1..4 :
        LastIsStep(k) /\ LastAnswer.kind = "exc" /\ RunOver
        => /\ result.success = FALSE
           /\ Contains(result.error, StepFailureWords(k))

\* C12 (amended): a transport failure at step k fails the step as a status the
\* step does not accept does: the call is the last of the run, none is issued
\* twice, the result has success = FALSE and the chat shows its error; the
\* error is "API Error: <text of the failure>" for a transport failure and the
\* step's own message with the status for a status not accepted.
C12_RaiseFailsStepWithApiError ==
    \A k \in 1..4 :
        /\ \A i \in 1..Len(calls) :
              calls[i].op = SubmitOrder[k] /\ CallFailed(calls[i]) =>
                 /\ i = Len(calls)
                 /\ RunOver
                 /\ result.success = FALSE
                 /\ DOMAIN result = {"success", "error"}
                 /\ processing_msg.type = "failed"
                 /\ processing_msg.error = result.error
                 /\ IF calls[i].resp.kind = "exc"
                    THEN result.error = <<"API", "Error:", calls[i].resp.exc>>
                    ELSE result.error = StepFailureWords(k)
                                          \o <<"HTTP", StatusText(calls[i].resp.status)>>
        /\ Cardinality({i \in 1..Len(calls) : calls[i].op = SubmitOrder[k]}) <= 1

\* C12 witness: the PUT of step 3 timed out and the chat shows the API error.
C12_Witness ==
    /\ LastIsStep(3)
    /\ LastAnswer = Raised("timed out")
    /\ pc = "return"
    /\ processing_msg.type = "failed"
    /\ processing_msg.error = <<"API", "Error:", "timed out">>

\* The edits of the chat message that end a run.
FinalMessages == {"link_failed", "failed", "submitted"}

\* How far the handler has come.
Rank(p) ==
    CASE p = "verify" -> 1 [] p = "generate" -> 2 [] p = "render" -> 3 [] p = "submit" -> 4
      [] p = "step1" -> 5 [] p = "step2" -> 6 [] p = "step3" -> 7 [] p = "step4" -> 8
      [] p = "final" -> 9 [] p = "return" -> 10 [] p = "idle" -> 11

\* C13: a text message handled in WAITING_FOR_URL is answered at once: with a
\* format error, the conversation staying in WAITING_FOR_URL, or with the
\* processing message, a run starting. A run, whatever the remote service
\* answers and whichever of its calls raise, can always take its next step,
\* every step takes it further, it is left only by the return that follows a
\* final edit of the chat message (link failed, failed, submitted), and the
\* return ends the conversation. The calls to the Bot API are taken to return.
C13_RunAlwaysAnswers ==
    /\ [][\A c \in Convs :
             Handles(c, "handle_verification_link") =>
                /\ reply'.conv = c
                /\ \/ /\ reply'.type \in {"invalid_link", "invalid_link_format"}
                      /\ pc' = "idle"
                      /\ conversations'[c] = WAITING_FOR_URL
                   \/ /\ reply'.type = "processing"
                      /\ pc' = "verify"
                      /\ cur'.conv = c]_vars
    /\ [](pc # "idle" => ENABLED Run)
    /\ [][pc # "idle" =>
            \/ Rank(pc') > Rank(pc)
            \/ pc' = pc /\ UNCHANGED <<locals, conversations, reply>>]_vars
    /\ [](pc = "return" =>
            /\ processing_msg.conv = cur.conv
            /\ processing_msg.type \in FinalMessages)
    /\ [][pc # "idle" /\ pc' = "idle" =>
            /\ pc = "return"
            /\ conversations'[cur.conv] = END]_vars

\* C13 witness: every step of the submission succeeded, the final read raised, and the
\* failure is on the chat message.
C13_Witness ==
    /\ FinalRead
    /\ FinalAnswer.kind = "exc"
    /\ pc = "return"
    /\ processing_msg.type \in FinalMessages
    /\ update_queue # <<>>

\* This step takes a verification command of c (/verify or the start button)
\* off the queue.
TakesVerifyCommand(c) ==
    /\ update_queue # <<>>
    /\ Head(update_queue).conv = c
    /\ Head(update_queue).kind \in {"verify", "start_real_verify"}
    /\ update_queue' = Tail(update_queue)

\* C14 (as claimed): a verification command handled for a conversation, also
\* one that is in WAITING_FOR_URL already, is not ignored: the conversation is
\* in WAITING_FOR_URL afterwards, the instructions are sent again, and no run
\* of the earlier session is left.
C14_VerifyReplacesSession ==
    [][\A c \in Convs :
          TakesVerifyCommand(c) =>
             /\ conversations'[c] = WAITING_FOR_URL
             /\ reply' = [conv |-> c, type |-> "instructions"]
             /\ pc' = "idle"
             /\ cur'.conv # c]_vars

\* The progress notifications "Step N/5" and the stage each announces.
Notice == <<"notify1", "notify2", "notify3", "notify4", "notify5">>
Announced == <<"extract", "status", "generate", "render", "step1">>
Notices == SelectSeq(trace, LAMBDA e : e \in {Notice[n] : n \in 1..5})

\* Event a is in the trace before position i.
Before(a, i) == \E j \in 1..(i - 1) : trace[j] = a

\* Notification n was emitted before the stage it announces began.
NoticeFirst(n) == \A i \in 1..Len(trace) : trace[i] = Announced[n] => Before(Notice[n], i)

\* C15 (as claimed): the notifications come in increasing order and each of
\* them, the one for the extraction included, is emitted before the stage it
\* announces begins.
C15_NoticeBeforeEveryStage ==
    /\ IsPrefix(Notices, Notice)
    /\ \A n \in 1..5 : NoticeFirst(n)

\* C15 (amended): the notifications come in increasing order, each once, and
\* the chat message shows the latest; those for the status check, the
\* generation, the rendering and the submission are emitted before their
\* stage begins; the one for the extraction is emitted after the identifier
\* has been extracted, as the first thing of an accepted link and before the
\* status check.
C15_NoticeBeforeStageAfterExtraction ==
    /\ IsPrefix(Notices, Notice)
    /\ \A n \in 2..5 : NoticeFirst(n)
    /\ pc # "idle" =>
          /\ Len(trace) >= 2
          /\ trace[1] = "extract"
          /\ trace[2] = "notify1"
          /\ verification_id # <<>>
    /\ processing_msg.type = "progress" => processing_msg.step = Len(Notices)
    /\ \A i \in 1..Len(trace) : trace[i] = "status" => Before("notify1", i)

\* C15 witness: the first submission call has been made, all five
\* notifications before it.
C15_Witness ==
    /\ pc = "step2"
    /\ Notices = Notice
    /\ trace[Len(trace)] = "step1"
    /\ trace[Len(trace) - 1] = "notify5"

\* This step takes a cancel command of c off the queue.
TakesCancel(c) ==
    /\ update_queue # <<>>
    /\ Head(update_queue) = Update(c, "cancel", 0)
    /\ update_queue' = Tail(update_queue)

\* The final edit the remote calls of the run lead to, by their answers alone.
OutcomeOfCalls ==
    LET last == calls[Len(calls)]
    IN  IF last.op = "GET_status" THEN "link_failed"
        ELSE IF /\ last.op = "GET_final"
                /\ last.resp.kind = "http"
                /\ last.resp.status = 200 => last.resp.json
        THEN "submitted"
        ELSE "failed"

\* C16: while handle_verification_link runs no update is taken off the queue,
\* a cancel command included: what arrives waits and changes nothing of the
\* run, whose final message follows from the answers to its calls alone. A
\* cancel command is handled between runs only, and it changes the state of
\* its conversation only when that is WAITING_FOR_URL, the link not handled
\* yet; after a run the conversation has ended and the command changes nothing.
C16_CancelLeavesRunAlone ==
    /\ [][pc # "idle" =>
            \/ update_queue' = update_queue
            \/ /\ \E u \in Updates : update_queue' = Append(update_queue, u)
               /\ UNCHANGED <<pc, locals, conversations, reply>>]_vars
    /\ [][\A c \in Convs :
             TakesCancel(c) =>
                /\ pc = "idle"
                /\ pc' = "idle"
                /\ UNCHANGED locals
                /\ IF conversations[c] = WAITING_FOR_URL
                   THEN conversations' = [conversations EXCEPT ![c] = END]
                   ELSE UNCHANGED <<conversations, reply>>]_vars
    /\ [](pc # "idle" => conversations[cur.conv] = WAITING_FOR_URL)
    /\ [](pc = "return" => processing_msg.type = OutcomeOfCalls)

\* C16 witness: a cancel command of the running conversation arrived during
\* the run, which has shown the success report.
C16_Witness ==
    /\ pc = "return"
    /\ processing_msg.type = "submitted"
    /\ update_queue = <<Update(cur.conv, "cancel", 0)>>

\* C17: a conversation is either ended (no state kept, IDLE) or in
\* WAITING_FOR_URL; a run takes place in WAITING_FOR_URL. Every terminal
\* outcome, the return of a run (report of the submission, or link failed)
\* and a handled cancel, leaves the conversation ended, and every verification
\* command taken for an ended conversation, whatever came before, moves it to
\* WAITING_FOR_URL with the instructions sent: the cycle has no last turn.
C17_CycleRepeats ==
    /\ [](\A c \in Convs : conversations[c] \in {END, WAITING_FOR_URL})
    /\ [](pc # "idle" => conversations[cur.conv] = WAITING_FOR_URL)
    /\ [][pc = "return" /\ pc' # pc =>
            /\ pc' = "idle"
            /\ conversations' = [conversations EXCEPT ![cur.conv] = END]]_vars
    /\ [][\A c \in Convs :
             /\ Handles(c, "cancel_command") => conversations'[c] = END
             /\ pc = "idle" /\ conversations[c] = END /\ TakesVerifyCommand(c) =>
                   /\ conversations' = [conversations EXCEPT ![c] = WAITING_FOR_URL]
                   /\ reply' = [conv |-> c, type |-> "instructions"]
                   /\ UNCHANGED <<pc, locals>>]_vars

\* C17 witness: a run of A has returned, A is ended again while B waits for
\* its link, and the next verification command of A is about to be handled.
C17_Witness ==
    /\ reply = [conv |-> "A", type |-> "processing"]
    /\ pc = "idle"
    /\ conversations["A"] = END
    /\ conversations["B"] = WAITING_FOR_URL
    /\ update_queue = <<Update("A", "verify", 0)>>

\* The result carries a human-readable text: "message", or "error".
HasText(res) ==
    \/ "message" \in DOMAIN res /\ res.message # <<>>
    \/ "error" \in DOMAIN res /\ res.error # <<>>

\* C18 (as claimed): every result submit returns, on success and on every
\* failure path, carries a success flag, a text, the verification identifier,
\* a current step and the record used.
C18_ResultCarriesAll ==
    result # NoResult =>
        /\ "success" \in DOMAIN result
        /\ HasText(result)
        /\ {"verification_id", "current_step", "details"} \subseteq DOMAIN result

\* C18 (amended): every result carries a success flag and a text, "message"
\* on success and "error" on failure. A success result carries also the
\* verification identifier and the record used, and a current step exactly
\* when the final read was answered 200; a failure result carries nothing but
\* the flag and the error.
C18_ResultCarriesByOutcome ==
    result # NoResult =>
        /\ "success" \in DOMAIN result
        /\ HasText(result)
        /\ IF result.success
           THEN /\ FinalRead
                /\ {"message", "verification_id", "details"} \subseteq DOMAIN result
                /\ "error" \notin DOMAIN result
                /\ result.verification_id = verification_id
                /\ result.details = student_data
                /\ "current_step" \in DOMAIN result <=> FinalAnswer.status = 200
                /\ "current_step" \in DOMAIN result => result.current_step = final_step(FinalAnswer)
           ELSE DOMAIN result = {"success", "error"}

\* C18 witness: step 4 was refused and submit returned a failure result.
C18_Witness ==
    /\ LastIsStep(4)
    /\ LastAnswer = Plain(400)
    /\ result # NoResult
    /\ result.success = FALSE
    /\ DOMAIN result = {"success", "error"}

\* int() of a string of digits.
DigitVal(ch) == CHOOSE d \in 0..9 : DigitChar(d) = ch
RECURSIVE ParseNat(_)
ParseNat(cs) ==
    IF cs = <<>> THEN 0
    ELSE 10 * ParseNat(SubSeq(cs, 1, Len(cs) - 1)) + DigitVal(cs[Len(cs)])

\* The date a "YYYY-MM-DD" string names.
DateOf(cs) ==
    [year |-> ParseNat(SubSeq(cs, 1, 4)), month |-> ParseNat(SubSeq(cs, 6, 7)),
     day |-> ParseNat(SubSeq(cs, 9, 10))]

\* Full years from the date of birth to the date today.
Age(birth, today) ==
    today.year - birth.year
      - (IF \/ today.month < birth.month
            \/ today.month = birth.month /\ today.day < birth.day
         THEN 1 ELSE 0)

\* Dates at which the program runs.
RunDates ==
    { [year |-> 2024, month |-> 6, day |-> 15],
      [year |-> 2025, month |-> 1, day |-> 1],
      [year |-> 2026, month |-> 11, day |-> 3] }

\* C19 (as claimed): for every record generate_student_data returns and every
\* date at which the program runs, the age computed from the record's date of
\* birth is at least 18 and less than 24.
C19_AgeFrom18To24 ==
    student_data # NoStudent =>
        \A today \in RunDates :
            LET age == Age(DateOf(student_data.birth_date), today)
            IN  18 <= age /\ age < 24

\* The positions of "@" in a string, and the part after the first of them.
AtSigns(cs) == {i \in 1..Len(cs) : cs[i] = "@"}
AfterAt(cs) ==
    LET i == CHOOSE a \in AtSigns(cs) : \A b \in AtSigns(cs) : a <= b
    IN  SubSeq(cs, i + 1, Len(cs))

\* C20: in every record generate_student_data returns, for each organization,
\* pair of names and email pattern, the email has one "@" and the part after
\* it is the domain of the organization stored in the same record.
C20_EmailDomainIsOrganizations ==
    student_data # NoStudent =>
        /\ Cardinality(AtSigns(student_data.email)) = 1
        /\ AfterAt(student_data.email) = Chars(student_data.university.domain)

\* C20 witness: a record of the second organization with an email of the
\* first.last pattern.
C20_Witness ==
    /\ student_data # NoStudent
    /\ student_data.university = UNIVERSITIES[2]
    /\ student_data.email =
          <<"j", "o", "h", "n", ".", "s", "m", "i", "t", "h", "9", "9",
            "@", "u", "c", "l", "a", ".", "e", "d", "u">>

\* The rules of the extractor in their order of priority: the literal each
\* looks for; an identifier, one or more of [a-f0-9], follows it.
Rules ==
    << <<"v", "e", "r", "i", "f", "i", "c", "a", "t", "i", "o", "n", "I", "d", "=">>,
       <<"/", "v", "e", "r", "i", "f", "y", "/">>,
       <<"i", "d", "=">> >>

\* The literal lit is in text s at i, in any case, an identifier after it.
RuleAt(s, lit, i) ==
    /\ OccursAtNoCase(s, lit, i)
    /\ i + Len(lit) <= Len(s)
    /\ IsHex(s[i + Len(lit)])
RuleMatches(s, lit) == \E i \in 1..Len(s) : RuleAt(s, lit, i)

\* id is what the rule captures in s: all the identifier characters after
\* the first place the rule matches at.
Captured(s, lit, id) ==
    \E i \in 1..Len(s) :
        /\ RuleAt(s, lit, i)
        /\ \A j \in 1..(i - 1) : ~RuleAt(s, lit, j)
        /\ id # <<>>
        /\ i + Len(lit) + Len(id) - 1 <= Len(s)
        /\ \A k \in 1..Len(id) : id[k] = s[i + Len(lit) + k - 1] /\ IsHex(id[k])
        /\ LET after == i + Len(lit) + Len(id)
           IN  after <= Len(s) => ~IsHex(s[after])

\* C21: extract_verification_id returns what the first, in the order
\* verificationId=, /verify/, id=, of the rules that match captures, the match
\* made in any case, and None only when no rule matches; the text
\* https://services.sheerid.com/verify/x?verificationId=abc123 gives abc123.
C21_FirstRuleInPriorityOrder ==
    trace = <<"extract">> =>
        LET hits == {n \in 1..Len(Rules) : RuleMatches(url, Rules[n])}
        IN  /\ hits = {} <=> verification_id = <<>>
            /\ \A n \in hits :
                  (\A m \in hits : n <= m) => Captured(url, Rules[n], verification_id)
            /\ url = Texts[3] => verification_id = <<"a", "b", "c", "1", "2", "3">>

\* C21 witness: a text with an identifier after /verify/ and another as the
\* verificationId parameter: the parameter's is returned.
C21_Witness ==
    /\ trace = <<"extract">>
    /\ RuleMatches(url, Rules[2])
    /\ Captured(url, Rules[2], <<"a", "b">>)
    /\ Captured(url, Rules[1], <<"9", "F">>)
    /\ verification_id = <<"9", "F">>

\* The dispatcher handling a command or a button press.
HandleCommand ==
    \/ Unhandled
    \/ verify_command
    \/ button_handler
    \/ cancel_command
    \/ simulate_command

\* C22 (as claimed): whatever is handled for one conversation leaves the
\* state of every other conversation as it is, and a command of a conversation
\* other than the one a run is in progress for can be handled at once, the
\* run not holding it up.
C22_ConversationsIndependent ==
    /\ [][\A c \in Convs :
             conversations'[c] # conversations[c] =>
                \/ Handles(c, Handler(Head(update_queue)))
                \/ pc = "return" /\ cur.conv = c]_vars
    /\ [](/\ update_queue # <<>>
          /\ Head(update_queue).conv # cur.conv
          /\ Head(update_queue).kind # "text"
          => ENABLED HandleCommand)

\* This step begins a run: an accepted link, its identifier extracted.
BeginsRun ==
    /\ update_queue # <<>>
    /\ update_queue' = Tail(update_queue)
    /\ pc' = "verify"

\* C23: a run begins only when none is in progress, for a text taken in
\* WAITING_FOR_URL; while it is in progress its stages begin one after the
\* other, each step of the handler beginning the next or ending the run, and
\* what arrives meanwhile, for the same conversation too, waits in the queue.
\* A text of the conversation taken after the run finds it ended and goes to
\* the default handler: it begins no run.
C23_OneRunAtATime ==
    /\ [][BeginsRun =>
            /\ pc = "idle"
            /\ cur = NoUpdate
            /\ calls = <<>>
            /\ trace = <<>>
            /\ conversations[cur'.conv] = WAITING_FOR_URL
            /\ cur' = Head(update_queue)
            /\ trace' = <<"extract", "notify1">>]_vars
    /\ [][pc # "idle" =>
            /\ cur' \in {cur, NoUpdate}
            /\ cur' = NoUpdate <=> pc' = "idle"
            /\ pc' # "idle" => IsPrefix(trace, trace')
            /\ Len(update_queue') >= Len(update_queue)]_vars
    /\ [](pc # "idle" <=> cur # NoUpdate)
    /\ [][\A c \in Convs :
             /\ conversations[c] = END
             /\ update_queue # <<>>
             /\ Head(update_queue).conv = c
             /\ Head(update_queue).kind = "text"
             /\ update_queue' = Tail(update_queue)
             => /\ reply' = [conv |-> c, type |-> "hint"]
                /\ UNCHANGED <<pc, locals, conversations>>]_vars

\* C23 witness: a second link of the conversation whose run is in progress
\* has arrived and waits.
C23_Witness ==
    /\ pc = "step2"
    /\ cur.conv = "A"
    /\ update_queue = <<Update("A", "text", 3)>>

\* The status codes the design has step k accept, and the words with which it
\* has a refused status reported.
AcceptedAt(k) == IF k = 3 THEN {200, 204} ELSE {200}
NamedFailure(k) ==
    CASE k = 1 -> <<"Student", "info", "submission", "failed:">>
      [] k = 2 -> <<"Upload", "URL", "request", "failed:">>
      [] k = 3 -> <<"Document", "upload", "failed:">>
      [] k = 4 -> <<"Upload", "completion", "failed:">>

\* C24: when the last call of the run is step k answered with a status, then
\* a status step k does not accept (anything but 200 at steps 1, 2 and 4,
\* anything but 200 and 204 at step 3) has ended submit with success = FALSE
\* and the error of step k followed by the status, every earlier step having
\* been answered with a status it accepts; and an accepted status has not
\* produced the error of step k.
C24_ErrorNamesFirstFailingStep ==
    \A k \in 1..4 :
        LastIsStep(k) /\ LastAnswer.kind = "http" =>
            /\ Len(StepCalls) = k
            /\ \A i \in 1..(k - 1) :
                  /\ StepCalls[i].op = SubmitOrder[i]
                  /\ StepCalls[i].resp.kind = "http"
                  /\ StepCalls[i].resp.status \in AcceptedAt(i)
            /\ LastAnswer.status \notin AcceptedAt(k) =>
                  /\ pc = "return"
                  /\ result = [success |-> FALSE,
                               error |-> NamedFailure(k)
                                          \o <<"HTTP", StatusText(LastAnswer.status)>>]
                  /\ processing_msg.type = "failed"
                  /\ processing_msg.error = result.error
            /\ LastAnswer.status \in AcceptedAt(k) =>
                  IF k = 2 /\ pc = "return"
                  THEN ~IsPrefix(NamedFailure(2), result.error)
                  ELSE pc = <<"step2", "step3", "step4", "final">>[k]

\* C24 witness: step 3 was answered 204 and went on, step 4 was answered 204
\* and failed the run.
C24_Witness ==
    /\ pc = "return"
    /\ LastIsStep(4)
    /\ LastAnswer = Plain(204)
    /\ StepCalls[3].resp = Plain(204)
    /\ result.error = <<"Upload", "completion", "failed:", "HTTP", "204">>

\* The answer to step 2 is HTTP 200 with a body that carries no usable upload
\* URL: no documents, or a first document whose uploadUrl is missing or empty.
NoUsableUploadUrl(resp) ==
    /\ resp.kind = "http"
    /\ resp.status = 200
    /\ resp.json
    /\ \/ resp.documents = <<>>
       \/ ~resp.documents[1].hasUrl
       \/ resp.documents[1].uploadUrl = ""

\* C25: when step 2 is answered HTTP 200 without a usable upload URL, it is
\* the last call of the run: submit has returned success = FALSE with the
\* error "No upload URL received" (no documents) or "Invalid upload URL" (first
\* document without one), the failure is what the user is shown, no upload URL
\* was kept, and neither the PUT nor the completion POST is issued, in that
\* state or by any later step of the run.
C25_NoUploadUrlStopsSubmit ==
    /\ [](\A k \in 1..Len(calls) :
             calls[k].op = "POST_docUpload" /\ NoUsableUploadUrl(calls[k].resp)
             => /\ k = Len(calls)
                /\ pc = "return"
                /\ upload_url = ""
                /\ result = [success |-> FALSE,
                             error |-> IF calls[k].resp.documents = <<>>
                                       THEN <<"No", "upload", "URL", "received">>
                                       ELSE <<"Invalid", "upload", "URL">>]
                /\ processing_msg.type = "failed"
                /\ processing_msg.error = result.error
                /\ ~Issued("PUT_upload")
                /\ ~Issued("POST_completeDocUpload"))
    /\ [][LastIsStep(2) /\ NoUsableUploadUrl(LastAnswer)
            => calls' \in {calls, <<>>}]_vars

\* C25 witness: step 2 was answered 200 with a first document whose uploadUrl
\* is empty, and the run is at its return.
C25_Witness ==
    /\ pc = "return"
    /\ LastIsStep(2)
    /\ LastAnswer.status = 200
    /\ LastAnswer.documents = <<[hasUrl |-> TRUE, uploadUrl |-> ""]>>
    /\ result.error = <<"Invalid", "upload", "URL">>

\* The call of step 2 and the PUT of step 3, when the run has issued them.
ManifestCall == CHOOSE i \in 1..Len(calls) : calls[i].op = "POST_docUpload"
PutCall == CHOOSE i \in 1..Len(calls) : calls[i].op = "PUT_upload"

\* C26: in a run of submit that has issued the PUT of step 3, the PUT follows
\* the step-2 call at once, the size declared in the step-2 manifest equals
\* the number of bytes sent with the PUT, both equal the length of the
\* rendered document, and the PUT went to the uploadUrl of the first document
\* in the answer to step 2; the document submit was given is not replaced.
C26_DeclaredSizeIsSentSize ==
    /\ [](Issued("PUT_upload") =>
             /\ Issued("POST_docUpload")
             /\ PutCall = ManifestCall + 1
             /\ \A i \in 1..Len(calls) :
                   /\ calls[i].op = "POST_docUpload" => i = ManifestCall
                   /\ calls[i].op = "PUT_upload" => i = PutCall
             /\ calls[ManifestCall].size = calls[PutCall].size
             /\ calls[PutCall].size = image_io.nbytes
             /\ calls[ManifestCall].resp.documents # <<>>
             /\ calls[PutCall].url = calls[ManifestCall].resp.documents[1].uploadUrl
             /\ calls[PutCall].url \in UploadUrls)
    /\ [][/\ image_io'.nbytes = image_io.nbytes
           /\ image_io'.doc = image_io.doc]_vars

\* C26 witness: a document of four bytes was declared and sent, and the PUT
\* was accepted.
C26_Witness ==
    /\ Issued("PUT_upload")
    /\ image_io.nbytes = 4
    /\ calls[PutCall].size = 4
    /\ calls[PutCall].resp = Plain(204)
    /\ pc = "step4"

\* The calls whose URL carries a verification identifier: the status check,
\* steps 1, 2 and 4 and the final status read.
IdOps == {"GET_status", "POST_collectStudentPersonalInfo", "POST_docUpload",
          "POST_completeDocUpload", "GET_final"}

\* The identifiers in the two well-formed links of Texts: what follows
\* "verificationId=" in the third, "/verify/" in the fourth.
IdOfText(t) ==
    CASE t = 3 -> <<"a", "b", "c", "1", "2", "3">>
      [] t = 4 -> <<"9", "F", "0", "e">>

\* C27: a run starts with the identifier extracted from the message it is
\* started for and keeps it in hand throughout; every call whose URL carries an
\* identifier carries that one, the result of a successful submission and the
\* final report of the submission show it, and no step of the run replaces
\* it, whatever arrives meanwhile.
C27_OneIdentifierPerRun ==
    /\ [](pc # "idle" =>
             /\ cur.kind = "text"
             /\ cur.text \in {3, 4}
             /\ verification_id = IdOfText(cur.text)
             /\ \A i \in 1..Len(calls) :
                   IF calls[i].op \in IdOps
                   THEN calls[i].id = verification_id
                   ELSE calls[i].op = "PUT_upload" /\ calls[i].id = <<>>
             /\ result # NoResult /\ result.success
                   => result.verification_id = verification_id
             /\ processing_msg.type \in {"failed", "submitted"}
                   => processing_msg.verification_id = verification_id)
    /\ [][pc = "idle" /\ pc' # "idle" =>
            /\ update_queue # <<>>
            /\ cur' = Head(update_queue)]_vars
    /\ [][pc # "idle" /\ pc' # "idle" =>
            /\ cur' = cur
            /\ verification_id' = verification_id]_vars

\* C27 witness: the run for the link with identifier abc123 made all five
\* calls and is showing its report, while the link with identifier 9F0e sent in
\* the other conversation waits.
C27_Witness ==
    /\ pc = "return"
    /\ cur = Update("A", "text", 3)
    /\ update_queue = <<Update("B", "text", 4)>>
    /\ \A op \in IdOps : Issued(op)
    /\ processing_msg.type = "submitted"
    /\ processing_msg.verification_id = <<"a", "b", "c", "1", "2", "3">>

\* The dispatcher takes a text message of a conversation that is in no state
\* of the conversation handler (none started yet, or the last one ended).
TakesTextOutsideConversation ==
    /\ update_queue # <<>>
    /\ Head(update_queue).kind = "text"
    /\ conversations[Head(update_queue).conv] = END
    /\ update_queue' = Tail(update_queue)

\* C28: a remote call is issued, and a record generated or a card rendered
\* for submission, only by the handler running for a text message taken in
\* WAITING_FOR_URL, and calls exist only inside such a run. A text message
\* taken outside a conversation, a well-formed link too, is answered with the
\* hint of the default handler: no call, no record, no card, no stage, and the
\* conversation states and the dispatcher stay as they were.
C28_RemoteCallsOnlyFromWaiting ==
    /\ [][\/ calls' # calls /\ calls' # <<>>
          \/ student_data' # student_data /\ student_data' # NoStudent
          \/ image_io' # image_io /\ image_io' # NoImage
          => /\ pc # "idle"
             /\ cur.kind = "text"
             /\ conversations[cur.conv] = WAITING_FOR_URL
             /\ Contains(url, SHEERID_MARKER)]_vars
    /\ [](calls # <<>> \/ trace # <<>> => pc # "idle")
    /\ [][TakesTextOutsideConversation =>
            /\ reply' = [conv |-> Head(update_queue).conv, type |-> "hint"]
            /\ pc = "idle" /\ pc' = "idle"
            /\ calls' = <<>>
            /\ trace' = <<>>
            /\ student_data' = NoStudent
            /\ image_io' = NoImage
            /\ result' = NoResult
            /\ UNCHANGED <<conversations, locals, cancelled>>]_vars

\* C28 witness: after a run in conversation A has ended, a well-formed link
\* sent in A is at the head of the queue, and the default handler is the one
\* to take it.
C28_Witness ==
    /\ pc = "idle"
    /\ conversations["A"] = END
    /\ reply = [conv |-> "A", type |-> "processing"]
    /\ update_queue = <<Update("A", "text", 3)>>
    /\ ENABLED default_reply

====
